---------------------------- MODULE Spec2Model ----------------------------
(***************************************************************************)
(* A model of oak's util.ts: resolvePath (path-traversal guard) and        *)
(* readableStreamFromReader (Deno.Reader -> ReadableStream bridge).        *)
(*                                                                         *)
(* Strings are sequences of one-character strings, so that normalisation,  *)
(* joining and the UP_PATH_REGEXP test are computed character by character *)
(* and segment by segment as the code and the path library compute them.   *)
(* The path library (isAbsolute, join, normalize, sep, imported on line 3  *)
(* of util.ts) is modelled in its POSIX flavour: "/" is the only separator *)
(* and a backslash is an ordinary file-name character.                     *)
(***************************************************************************)
EXTENDS Integers, Sequences, FiniteSets, TLC

VARIABLES
    \* ---- resolvePath: one call and its outcome
    rootPath,       \* first argument of the call
    relativePath,   \* second argument of the call
    outcome,        \* what the call returned or threw
    pc,             \* "call" before the call, "done" after it, "off" when unused
    \* ---- readableStreamFromReader: the arguments
    isCloserReader, \* isCloser(reader): the reader has a close method
    closeThrows,    \* the reader's close method throws when it is called
    autoClose,      \* options.autoClose
    chunkSize,      \* options.chunkSize
    highWaterMark,  \* options.strategy.highWaterMark (0 when absent)
    \* ---- the ReadableStream and its byte controller
    stream,         \* [state, closeRequested, started, pulling, pullAgain,
                    \*  queue, readRequests]
    pullResults,    \* settled promises of pull, not yet seen by the stream:
                    \* "" for a fulfilled one, else what pull threw
    cancelResult,   \* "none", or how the promise of cancel settled
    readsAtCancel,  \* how many reads had settled when cancel ran (-1: not run)
    \* ---- the reader
    inFlight,       \* calls of reader.read that have not settled
    reads,          \* the settled calls of reader.read, in order
    closeCalls,     \* calls of reader.close
    \* ---- history
    trace,          \* enqueue, end and error signals that took effect, and
                    \* the calls of reader.close, in order
    \* ---- stripEol: a buffer and the results of applying stripEol to it
    value,          \* the buffer stripEol is first called with
    stripped        \* the results of the successive calls, each call taking
                    \* the result of the one before

pathVars == <<rootPath, relativePath, outcome, pc>>
optionVars == <<isCloserReader, closeThrows, autoClose, chunkSize, highWaterMark>>
bridgeVars == <<stream, pullResults, cancelResult, readsAtCancel, inFlight,
                reads, closeCalls, trace>>
eolVars == <<value, stripped>>
vars == <<pathVars, optionVars, bridgeVars, eolVars>>

(***************************************************************************)
(* Bounds.                                                                 *)
(***************************************************************************)
\* relative paths are built from at most this many pieces of path syntax
MaxPathLen == 5
\* the reader is read at most this many times
MaxReads == 3
\* options.chunkSize is at most this
MaxChunk == 2
\* options.strategy.highWaterMark is at most this
MaxHighWaterMark == 2
\* the consumer has at most this many reads of the stream outstanding
MaxPending == 2
\* the buffers given to stripEol have at most this many bytes
MaxBufLen == 4
\* stripEol is applied at most this many times in a row
MaxStrips == 2

(***************************************************************************)
(* Characters and strings.                                                 *)
(***************************************************************************)
NUL == "\\0"          \* stands for the character with code 0
SLASH == "/"
BACKSLASH == "\\"
DOT == "."

\* the platform separator imported from deps.ts (POSIX)
sep == <<SLASH>>

\* str: a JavaScript string; undefined and null are the two absent values
Str(s) == [tag |-> "string", s |-> s]
Undefined == [tag |-> "undefined", s |-> <<>>]
Null == [tag |-> "null", s |-> <<>>]

RECURSIVE Concat(_)
\* the concatenation of a sequence of strings
Concat(ss) == IF ss = <<>> THEN <<>> ELSE Head(ss) \o Concat(Tail(ss))

\* String.prototype.includes for a single character
includes(s, c) == \E i \in 1..Len(s) : s[i] = c

(***************************************************************************)
(* The POSIX path library.                                                 *)
(***************************************************************************)
RECURSIVE SplitAcc(_, _, _)
\* the segments of s between separators: acc holds the finished segments,
\* cur the segment being read
SplitAcc(s, acc, cur) ==
    IF s = <<>> THEN Append(acc, cur)
    ELSE IF Head(s) = SLASH THEN SplitAcc(Tail(s), Append(acc, cur), <<>>)
    ELSE SplitAcc(Tail(s), acc, Append(cur, Head(s)))

Segments(s) == SplitAcc(s, <<>>, <<>>)

RECURSIVE JoinSegs(_)
\* segments written with one separator between neighbours
JoinSegs(segs) ==
    IF segs = <<>> THEN <<>>
    ELSE IF Len(segs) = 1 THEN segs[1]
    ELSE segs[1] \o <<SLASH>> \o JoinSegs(Tail(segs))

DotDot == <<DOT, DOT>>

RECURSIVE NormSegs(_, _, _)
\* normalizeString: walks the segments keeping the stack res of segments kept
\* so far; "" and "." are dropped, ".." removes the last kept segment unless
\* there is none or it is itself "..", in which case ".." is kept when
\* allowAboveRoot and dropped otherwise
NormSegs(segs, res, allowAboveRoot) ==
    IF segs = <<>> THEN res
    ELSE LET g == Head(segs)
             rest == Tail(segs)
         IN  IF g = <<>> \/ g = <<DOT>> THEN NormSegs(rest, res, allowAboveRoot)
             ELSE IF g = DotDot THEN
                 IF res # <<>> /\ res[Len(res)] # DotDot
                 THEN NormSegs(rest, SubSeq(res, 1, Len(res) - 1), allowAboveRoot)
                 ELSE IF allowAboveRoot
                      THEN NormSegs(rest, Append(res, DotDot), allowAboveRoot)
                      ELSE NormSegs(rest, res, allowAboveRoot)
             ELSE NormSegs(rest, Append(res, g), allowAboveRoot)

normalizeString(path, allowAboveRoot) ==
    JoinSegs(NormSegs(Segments(path), <<>>, allowAboveRoot))

\* posix isAbsolute: the path starts with a separator
isAbsolute(path) == Len(path) > 0 /\ path[1] = SLASH

\* posix normalize
normalize(path) ==
    IF Len(path) = 0 THEN <<DOT>>
    ELSE LET abs == path[1] = SLASH
             trailingSeparator == path[Len(path)] = SLASH
             p1 == normalizeString(path, ~abs)
             p2 == IF Len(p1) = 0 /\ ~abs THEN <<DOT>> ELSE p1
             p3 == IF Len(p2) > 0 /\ trailingSeparator THEN p2 \o <<SLASH>> ELSE p2
         IN  IF abs THEN <<SLASH>> \o p3 ELSE p3

\* posix join of two paths: empty arguments are skipped, the rest are joined
\* with a separator and normalized
join(a, b) ==
    LET joined == IF Len(a) > 0 /\ Len(b) > 0 THEN a \o <<SLASH>> \o b
                  ELSE IF Len(a) > 0 THEN a
                  ELSE b
    IN  IF Len(joined) = 0 THEN <<DOT>> ELSE normalize(joined)

(***************************************************************************)
(* resolvePath.                                                            *)
(***************************************************************************)
IsSepOrBack(c) == c = SLASH \/ c = BACKSLASH

\* UP_PATH_REGEXP with the end-of-string alternative forgotten:
\* /(?:^|[\\/])\.\.[\\/]/
UP_PATH_REGEXP_NoEnd(s) ==
    \E i \in 1..(Len(s) - 2) :
        /\ s[i] = DOT
        /\ s[i + 1] = DOT
        /\ (i = 1 \/ IsSepOrBack(s[i - 1]))
        /\ IsSepOrBack(s[i + 2])

\* UP_PATH_REGEXP.test(s): /(?:^|[\\/])\.\.(?:[\\/]|$)/
UP_PATH_REGEXP(s) ==
    \E i \in 1..(Len(s) - 1) :
        /\ s[i] = DOT
        /\ s[i + 1] = DOT
        /\ (i = 1 \/ IsSepOrBack(s[i - 1]))
        /\ (i + 1 = Len(s) \/ IsSepOrBack(s[i + 2]))

\* outcomes of a call
Returned(p) == [kind |-> "return", status |-> 0, path |-> p]
TypeError == [kind |-> "TypeError", status |-> 0, path |-> <<>>]
createHttpError(status) == [kind |-> "HttpError", status |-> status, path |-> <<>>]
NoOutcome == [kind |-> "none", status |-> 0, path |-> <<>>]

\* resolvePath testing the raw path for a leading ".." instead of the
\* normalized one
resolvePath_RawPrefixCheck(rootArg, relativeArg) ==
    LET path == IF relativeArg = Undefined THEN rootArg ELSE relativeArg
        root == IF relativeArg = Undefined THEN Str(<<DOT>>) ELSE rootArg
    IN  IF path = Undefined \/ path = Null THEN TypeError
        ELSE IF includes(path.s, NUL) THEN createHttpError(400)
        ELSE IF isAbsolute(path.s) THEN createHttpError(400)
        ELSE IF Len(path.s) >= 2 /\ SubSeq(path.s, 1, 2) = DotDot
             THEN createHttpError(403)
        ELSE Returned(normalize(join(root.s, path.s)))

\* resolvePath making the traversal check before the NUL and absolute checks
resolvePath_UpCheckFirst(rootArg, relativeArg) ==
    LET path == IF relativeArg = Undefined THEN rootArg ELSE relativeArg
        root == IF relativeArg = Undefined THEN Str(<<DOT>>) ELSE rootArg
    IN  IF path = Undefined \/ path = Null THEN TypeError
        ELSE IF UP_PATH_REGEXP(normalize(<<DOT>> \o sep \o path.s))
             THEN createHttpError(403)
        ELSE IF includes(path.s, NUL) THEN createHttpError(400)
        ELSE IF isAbsolute(path.s) THEN createHttpError(400)
        ELSE Returned(normalize(join(root.s, path.s)))

\* resolvePath reporting an absent path as a 400 HTTP error
resolvePath_AbsentAs400(rootArg, relativeArg) ==
    LET path == IF relativeArg = Undefined THEN rootArg ELSE relativeArg
        root == IF relativeArg = Undefined THEN Str(<<DOT>>) ELSE rootArg
    IN  IF path = Undefined \/ path = Null THEN createHttpError(400)
        ELSE IF includes(path.s, NUL) THEN createHttpError(400)
        ELSE IF isAbsolute(path.s) THEN createHttpError(400)
        ELSE IF UP_PATH_REGEXP(normalize(<<DOT>> \o sep \o path.s))
             THEN createHttpError(403)
        ELSE Returned(normalize(join(root.s, path.s)))

\* resolvePath forgetting the root in the final join
resolvePath_DropsRoot(rootArg, relativeArg) ==
    LET path == IF relativeArg = Undefined THEN rootArg ELSE relativeArg
    IN  IF path = Undefined \/ path = Null THEN TypeError
        ELSE IF includes(path.s, NUL) THEN createHttpError(400)
        ELSE IF isAbsolute(path.s) THEN createHttpError(400)
        ELSE IF UP_PATH_REGEXP(normalize(<<DOT>> \o sep \o path.s))
             THEN createHttpError(403)
        ELSE Returned(normalize(path.s))

\* resolvePath without the single-argument form: the second argument is
\* always taken as the path
resolvePath_NoSingleArg(rootArg, relativeArg) ==
    LET path == relativeArg
        root == rootArg
    IN  IF path = Undefined \/ path = Null THEN TypeError
        ELSE IF includes(path.s, NUL) THEN createHttpError(400)
        ELSE IF isAbsolute(path.s) THEN createHttpError(400)
        ELSE IF UP_PATH_REGEXP(normalize(<<DOT>> \o sep \o path.s))
             THEN createHttpError(403)
        ELSE Returned(normalize(join(root.s, path.s)))

resolvePath(rootArg, relativeArg) ==
    LET path == IF relativeArg = Undefined THEN rootArg ELSE relativeArg
        root == IF relativeArg = Undefined THEN Str(<<DOT>>) ELSE rootArg
    IN  IF path = Undefined \/ path = Null THEN TypeError
        ELSE IF includes(path.s, NUL) THEN createHttpError(400)
        ELSE IF isAbsolute(path.s) THEN createHttpError(400)
        ELSE IF UP_PATH_REGEXP(normalize(<<DOT>> \o sep \o path.s))
             THEN createHttpError(403)
        ELSE Returned(normalize(join(root.s, path.s)))

(***************************************************************************)
(* The ReadableStream the bridge hands its callbacks to: a byte stream     *)
(* read through a default reader, as the Streams Standard defines it.      *)
(***************************************************************************)
NewStream ==
    [state |-> "readable", closeRequested |-> FALSE, started |-> FALSE,
     pulling |-> FALSE, pullAgain |-> FALSE, queue |-> <<>>,
     readRequests |-> 0]

RECURSIVE TotalSize(_)
\* [[queueTotalSize]]: the bytes held in the queue
TotalSize(q) == IF q = <<>> THEN 0 ELSE Len(Head(q)) + TotalSize(Tail(q))

\* ReadableByteStreamControllerGetDesiredSize, for a readable stream
DesiredSize(s) == highWaterMark - TotalSize(s.queue)

\* ReadableByteStreamControllerShouldCallPull
ShouldCallPull(s) ==
    /\ s.state = "readable"
    /\ ~s.closeRequested
    /\ s.started
    /\ (s.readRequests > 0 \/ DesiredSize(s) > 0)

\* ReadableStreamClose: the stream closes and the pending reads end
StreamClose(s) == [s EXCEPT !.state = "closed", !.readRequests = 0]

\* the history entries
EnqueueEv(chunk) == [op |-> "enqueue", chunk |-> chunk, err |-> ""]
EndEv == [op |-> "end", chunk |-> <<>>, err |-> ""]
ErrorEv(e) == [op |-> "error", chunk |-> <<>>, err |-> e]
CloseEv == [op |-> "close", chunk |-> <<>>, err |-> ""]

\* a step of a callback: the state it leaves and what it threw ("" if nothing)
Ok(w) == [w |-> w, threw |-> ""]
Threw(w, e) == [w |-> w, threw |-> e]

\* the part of the state the callbacks act on
World ==
    [stream |-> stream, inFlight |-> inFlight, closeCalls |-> closeCalls,
     trace |-> trace]

SetWorld(w) ==
    /\ stream' = w.stream
    /\ inFlight' = w.inFlight
    /\ closeCalls' = w.closeCalls
    /\ trace' = w.trace

(***************************************************************************)
(* readableStreamFromReader: the callbacks pull and cancel.                *)
(***************************************************************************)
\* reader.close(): the call is made, and throws if the reader's close does
readerClose(w) ==
    LET w1 == [w EXCEPT !.closeCalls = @ + 1, !.trace = Append(@, CloseEv)]
    IN  IF closeThrows THEN Threw(w1, "CloseError") ELSE Ok(w1)

\* pull up to its await: a chunk is allocated and reader.read(chunk) called
pullStart(w) == [w EXCEPT !.inFlight = @ + 1]

\* CallPullIfNeeded calling pull although the last pull has not settled
CallPullIfNeeded_IgnoresPulling(w) ==
    IF ~ShouldCallPull(w.stream) THEN w
    ELSE pullStart([w EXCEPT !.stream.pulling = TRUE])

\* ReadableByteStreamControllerCallPullIfNeeded
CallPullIfNeeded(w) ==
    IF ~ShouldCallPull(w.stream) THEN w
    ELSE IF w.stream.pulling THEN [w EXCEPT !.stream.pullAgain = TRUE]
    ELSE pullStart([w EXCEPT !.stream.pulling = TRUE])

\* controller.enqueue(chunk): throws on an empty chunk, after close was
\* requested and when the stream is no longer readable; otherwise the chunk
\* goes to a waiting read, or to the queue
controllerEnqueue(w, chunk) ==
    IF Len(chunk) = 0 \/ w.stream.closeRequested \/ w.stream.state # "readable"
    THEN Threw(w, "TypeError")
    ELSE LET s1 == IF w.stream.readRequests > 0
                   THEN [w.stream EXCEPT !.readRequests = @ - 1]
                   ELSE [w.stream EXCEPT !.queue = Append(@, chunk)]
             w1 == [w EXCEPT !.stream = s1,
                             !.trace = Append(@, EnqueueEv(chunk))]
         IN  Ok(CallPullIfNeeded(w1))

\* controller.close(): throws after close was requested and when the stream
\* is no longer readable; otherwise the stream closes, at once or when its
\* queue has drained
controllerClose(w) ==
    IF w.stream.closeRequested \/ w.stream.state # "readable"
    THEN Threw(w, "TypeError")
    ELSE LET s1 == IF TotalSize(w.stream.queue) > 0
                   THEN [w.stream EXCEPT !.closeRequested = TRUE]
                   ELSE StreamClose(w.stream)
         IN  Ok([w EXCEPT !.stream = s1, !.trace = Append(@, EndEv)])

\* controller.error(e): nothing happens unless the stream is readable; then
\* it becomes errored, its queue is dropped and its pending reads fail
controllerError(w, e) ==
    IF w.stream.state # "readable" THEN w
    ELSE [w EXCEPT !.stream.state = "errored",
                   !.stream.queue = <<>>,
                   !.stream.readRequests = 0,
                   !.trace = Append(@, ErrorEv(e))]

\* what a call of reader.read settles with
ReadEof == [kind |-> "eof", chunk |-> <<>>, n |-> 0, err |-> ""]
ReadThrow(e) == [kind |-> "throw", chunk |-> <<>>, n |-> 0, err |-> e]
\* n bytes, each holding k, written into a fresh chunk of chunkSize zeros
ReadData(k, n) ==
    [kind |-> "data",
     chunk |-> [i \in 1..chunkSize |-> IF i <= n THEN k ELSE 0],
     n |-> n, err |-> ""]

\* pull ending the stream before it closes the reader
pullOnEof_EndsFirst(w) ==
    LET r1 == controllerClose(w)
    IN  IF r1.threw # "" THEN r1
        ELSE IF isCloserReader /\ autoClose THEN readerClose(r1.w) ELSE r1

\* pull ending the stream without closing the reader
pullOnEof_SkipsReaderClose(w) == controllerClose(w)

\* pull, read === null: close the reader if asked to, then end the stream
pullOnEof(w) ==
    LET r1 == IF isCloserReader /\ autoClose THEN readerClose(w) ELSE Ok(w)
    IN  IF r1.threw # "" THEN r1 ELSE controllerClose(r1.w)

\* pull enqueuing the whole chunk, filled or not
pullOnData_WholeChunk(w, chunk, read) == controllerEnqueue(w, chunk)

\* pull, bytes were read: enqueue the filled part of the chunk
pullOnData(w, chunk, read) == controllerEnqueue(w, SubSeq(chunk, 1, read))

\* the catch clause closing the reader only under autoClose
pullCatch_OnlyAutoClose(w, e) ==
    LET w1 == controllerError(w, e)
    IN  IF isCloserReader /\ autoClose THEN readerClose(w1) ELSE Ok(w1)

\* the catch clause reading again after it has errored the stream
pullCatch_Retries(w, e) ==
    LET w1 == controllerError(w, e)
        r == IF isCloserReader THEN readerClose(w1) ELSE Ok(w1)
    IN  [r EXCEPT !.w = pullStart(@)]

\* pull, the catch clause: error the stream, then close the reader
pullCatch(w, e) ==
    LET w1 == controllerError(w, e)
    IN  IF isCloserReader THEN readerClose(w1) ELSE Ok(w1)

\* pull from the point reader.read has settled with result
pullResume(w, result) ==
    LET r == IF result.kind = "throw" THEN Threw(w, result.err)
             ELSE IF result.kind = "eof" THEN pullOnEof(w)
             ELSE pullOnData(w, result.chunk, result.n)
    IN  IF r.threw = "" THEN r ELSE pullCatch(r.w, r.threw)

\* cancel closing the reader without asking whether it can be closed
cancel_NoCloserCheck(w) == IF autoClose THEN readerClose(w) ELSE Ok(w)

\* cancel: close the reader if asked to
cancel(w) == IF isCloserReader /\ autoClose THEN readerClose(w) ELSE Ok(w)

\* how the promise of a callback that ended as r settles
Settled(r) == IF r.threw = "" THEN "fulfilled" ELSE "rejected"

(***************************************************************************)
(* stripEol.                                                               *)
(***************************************************************************)
CR == 13
LF == 10

\* stripEol dropping the line feed only
stripEol_LfOnly(v) ==
    IF Len(v) > 0 /\ v[Len(v)] = LF THEN SubSeq(v, 1, Len(v) - 1) ELSE v

\* stripEol: a trailing LF is dropped, with the CR before it if there is
\* one (the last byte of an empty buffer is undefined, which is no LF)
stripEol(v) ==
    IF Len(v) > 0 /\ v[Len(v)] = LF
    THEN LET drop == IF Len(v) > 1 /\ v[Len(v) - 1] = CR THEN 2 ELSE 1
         IN  SubSeq(v, 1, Len(v) - drop)
    ELSE v

\* the bytes buffers are made of: CR, LF and a letter
BufferBytes == {CR, LF, 97}

Buffers == UNION {[1..n -> BufferBytes] : n \in 0..MaxBufLen}

\* no buffer is in use while the other functions are examined
EolIdle == value = <<>> /\ stripped = <<>>

(***************************************************************************)
(* The bridge as a state machine.                                          *)
(***************************************************************************)
PathIdle ==
    /\ rootPath = Undefined
    /\ relativePath = Undefined
    /\ outcome = NoOutcome
    /\ pc = "off"

Init ==
    /\ PathIdle
    /\ EolIdle
    /\ isCloserReader \in BOOLEAN
    /\ closeThrows \in (IF isCloserReader THEN BOOLEAN ELSE {FALSE})
    /\ autoClose \in BOOLEAN
    /\ chunkSize \in 1..MaxChunk
    /\ highWaterMark \in 0..MaxHighWaterMark
    /\ stream = NewStream
    /\ pullResults = <<>>
    /\ cancelResult = "none"
    /\ readsAtCancel = -1
    /\ inFlight = 0
    /\ reads = <<>>
    /\ closeCalls = 0
    /\ trace = <<>>

\* the stream's start has completed: the first pull may be due
Start ==
    /\ ~stream.started
    /\ SetWorld(CallPullIfNeeded([World EXCEPT !.stream.started = TRUE]))
    /\ UNCHANGED <<eolVars, pathVars, optionVars, pullResults, cancelResult, readsAtCancel,
                   reads>>

\* the consumer asks for a chunk (a demand signal): it takes the head of the
\* queue, or waits for the next enqueue
Demand ==
    /\ stream.state = "readable"
    /\ stream.readRequests < MaxPending
    /\ IF stream.queue # <<>>
       THEN LET s1 == [stream EXCEPT !.queue = Tail(@)]
            IN  IF s1.queue = <<>> /\ s1.closeRequested
                THEN SetWorld([World EXCEPT !.stream = StreamClose(s1)])
                ELSE SetWorld(CallPullIfNeeded([World EXCEPT !.stream = s1]))
       ELSE SetWorld(CallPullIfNeeded(
                [World EXCEPT !.stream.readRequests = @ + 1]))
    /\ UNCHANGED <<eolVars, pathVars, optionVars, pullResults, cancelResult, readsAtCancel,
                   reads>>

\* the consumer cancels: the stream closes, its queue is dropped, and the
\* bridge's cancel runs
Cancel ==
    /\ stream.state = "readable"
    /\ LET s1 == [StreamClose(stream) EXCEPT !.queue = <<>>]
           r == cancel([World EXCEPT !.stream = s1])
       IN  /\ SetWorld(r.w)
           /\ cancelResult' = Settled(r)
           /\ readsAtCancel' = Len(reads)
    /\ UNCHANGED <<eolVars, pathVars, optionVars, pullResults, reads>>

\* the results the next read of the reader may settle with; a reader yields
\* data only while reads remain for its end or its failure
ReadResults ==
    {ReadEof, ReadThrow("ReadError")}
    \cup (IF Len(reads) + 1 < MaxReads
          THEN {ReadData(Len(reads) + 1, n) : n \in 0..chunkSize}
          ELSE {})

\* a call of reader.read settles and pull runs to its end
ReadSettles ==
    /\ inFlight > 0
    /\ Len(reads) < MaxReads
    /\ \E result \in ReadResults :
        LET r == pullResume([World EXCEPT !.inFlight = @ - 1], result)
        IN  /\ SetWorld(r.w)
            /\ reads' = Append(reads, result)
            /\ pullResults' = Append(pullResults, r.threw)
    /\ UNCHANGED <<eolVars, pathVars, optionVars, cancelResult, readsAtCancel>>

\* the stream reacts to the settled promise of pull: a fulfilled one ends
\* the pull and starts the next if one was asked for meanwhile, a rejected
\* one errors the stream
PullSettled ==
    /\ pullResults # <<>>
    /\ pullResults' = Tail(pullResults)
    /\ IF Head(pullResults) = ""
       THEN LET w1 == [World EXCEPT !.stream.pulling = FALSE]
            IN  IF w1.stream.pullAgain
                THEN SetWorld(CallPullIfNeeded(
                         [w1 EXCEPT !.stream.pullAgain = FALSE]))
                ELSE SetWorld(w1)
       ELSE SetWorld(controllerError(World, Head(pullResults)))
    /\ UNCHANGED <<eolVars, pathVars, optionVars, cancelResult, readsAtCancel, reads>>

Next == Start \/ Demand \/ Cancel \/ ReadSettles \/ PullSettled

Spec == Init /\ [][Next]_vars

\* the bridge with a consumer that keeps asking, a reader whose reads all
\* settle, and an event loop that runs every pending reaction
FairSpec ==
    /\ Spec
    /\ WF_vars(Start)
    /\ WF_vars(Demand)
    /\ WF_vars(ReadSettles)
    /\ WF_vars(PullSettled)

(***************************************************************************)
(* Inputs of resolvePath.                                                  *)
(***************************************************************************)
\* the pieces of path syntax relative paths are built from
Pieces == {<<"a">>, <<DOT>>, DotDot, <<SLASH>>, <<BACKSLASH>>, <<NUL>>}

PieceSeqs == UNION {[1..n -> Pieces] : n \in 0..MaxPathLen}

RelativePaths == {Concat(ps) : ps \in PieceSeqs}

Roots == { <<>>, <<DOT>>, <<"r">>, <<"r", SLASH>>, <<SLASH, "r">>,
           DotDot, <<"r", SLASH, DOT, DOT>>, <<DOT, DOT, SLASH, "r">> }

\* the argument lists of a call: (root, path), (path) alone, and the calls
\* in which the path is absent
AbsentCalls ==
    {<<Undefined, Undefined>>, <<Null, Undefined>>, <<Null, Null>>,
     <<Undefined, Null>>}

\* no bridge is in use while resolvePath is examined
BridgeIdle ==
    /\ isCloserReader = FALSE
    /\ closeThrows = FALSE
    /\ autoClose = TRUE
    /\ chunkSize = 1
    /\ highWaterMark = 0
    /\ stream = NewStream
    /\ pullResults = <<>>
    /\ cancelResult = "none"
    /\ readsAtCancel = -1
    /\ inFlight = 0
    /\ reads = <<>>
    /\ closeCalls = 0
    /\ trace = <<>>

PathInit ==
    /\ \/ /\ \E r \in Roots : rootPath = Str(r)
          /\ \E p \in RelativePaths : relativePath = Str(p)
       \/ /\ \E p \in RelativePaths : rootPath = Str(p)
          /\ relativePath = Undefined
       \/ /\ \E r \in Roots : rootPath = Str(r)
          /\ relativePath = Null
       \/ \E c \in AbsentCalls : rootPath = c[1] /\ relativePath = c[2]
    /\ outcome = NoOutcome
    /\ pc = "call"
    /\ BridgeIdle
    /\ EolIdle

ResolveCall ==
    /\ pc = "call"
    /\ outcome' = resolvePath(rootPath, relativePath)
    /\ pc' = "done"
    /\ UNCHANGED <<rootPath, relativePath, optionVars, bridgeVars, eolVars>>

PathNext == ResolveCall

PathSpec == PathInit /\ [][PathNext]_vars

(***************************************************************************)
(* stripEol applied to a buffer, and again to its result.                  *)
(***************************************************************************)
EolInit ==
    /\ value \in Buffers
    /\ stripped = <<>>
    /\ PathIdle
    /\ BridgeIdle

\* stripEol is called with the buffer, or with the result of the last call
StripEolCall ==
    /\ Len(stripped) < MaxStrips
    /\ stripped' = Append(stripped,
                          stripEol(IF stripped = <<>> THEN value
                                   ELSE stripped[Len(stripped)]))
    /\ UNCHANGED <<value, pathVars, optionVars, bridgeVars>>

EolNext == StripEolCall

EolSpec == EolInit /\ [][EolNext]_vars

(***************************************************************************)
(* Properties of resolvePath, checked under PathSpec.                      *)
(***************************************************************************)
\* the argument that is the relative path, and the root it is resolved
\* against (step 1 of the algorithm)
PathArg == IF relativePath = Undefined THEN rootPath ELSE relativePath
RootArg == IF relativePath = Undefined THEN Str(<<DOT>>) ELSE rootPath

Called == pc = "done"
HasPath == PathArg.tag = "string"

\* the normalized form of p begins with a parent-directory segment
BeginsWithParent(p) == Segments(normalize(p))[1] = DotDot

\* the segments of a path that count: no empty ones, no "."
RealSegs(p) == SelectSeq(Segments(p), LAMBDA g : g # <<>> /\ g # <<DOT>>)

IsPrefix(a, b) == Len(a) <= Len(b) /\ SubSeq(b, 1, Len(a)) = a

\* p lies lexically in the subtree of the normalized root r: r's segments
\* lead p's, and what follows them never climbs
InSubtree(p, r) ==
    LET ps == RealSegs(p)
        rs == RealSegs(normalize(r))
    IN  /\ isAbsolute(p) = isAbsolute(r)
        /\ IsPrefix(rs, ps)
        /\ \A i \in (Len(rs) + 1)..Len(ps) : ps[i] # DotDot

\* C1: a relative path without NUL that is not absolute and whose normalized
\* form begins with a parent-directory segment is refused with the 403 error
\* and no path is returned, whatever the root.
C1_TraversalForbidden ==
    (Called /\ HasPath /\ ~includes(PathArg.s, NUL) /\ ~isAbsolute(PathArg.s)
        /\ BeginsWithParent(PathArg.s))
    => outcome = createHttpError(403)

\* "a/../.." was resolved against root "r" and refused with 403
C1_Witness ==
    /\ Called
    /\ rootPath = Str(<<"r">>)
    /\ relativePath = Str(<<"a", SLASH, DOT, DOT, SLASH, DOT, DOT>>)
    /\ outcome.kind = "HttpError" /\ outcome.status = 403

\* C2: every path resolvePath returns lies lexically inside the subtree of
\* the normalized root.
C2_ResultInsideRoot ==
    (Called /\ outcome.kind = "return") => InSubtree(outcome.path, RootArg.s)

\* a path below the root "../r" was returned
C2_Witness ==
    /\ Called
    /\ rootPath = Str(<<DOT, DOT, SLASH, "r">>)
    /\ relativePath = Str(<<"a", SLASH, DOT, DOT, SLASH, "a">>)
    /\ outcome = Returned(<<DOT, DOT, SLASH, "r", SLASH, "a">>)

\* C3: a relative path that contains NUL, or is absolute, is refused with
\* the 400 error, also when it contains parent-directory segments.
C3_MalformedIs400 ==
    (Called /\ HasPath /\ (includes(PathArg.s, NUL) \/ isAbsolute(PathArg.s)))
    => outcome = createHttpError(400)

\* a path with both a NUL and a leading ".." was refused with 400, not 403
C3_Witness ==
    /\ Called
    /\ relativePath = Str(<<DOT, DOT, SLASH, NUL>>)
    /\ BeginsWithParent(relativePath.s)
    /\ outcome.kind = "HttpError" /\ outcome.status = 400

\* the relative path is absent: no path argument, or null
PathAbsent == PathArg = Undefined \/ PathArg = Null

\* C4 as stated: an absent relative path is refused with the 400-class
\* error, like NUL-containing and absolute paths.
C4_AbsentIs400 ==
    (Called /\ PathAbsent) => outcome = createHttpError(400)

\* C4 as amended: an absent relative path (null, or no argument at all) is
\* refused with a TypeError, which carries no HTTP status.
C4_AbsentIsTypeError ==
    (Called /\ PathAbsent)
    => (outcome.kind = "TypeError" /\ outcome.status = 0)

\* resolvePath(root, null) has thrown
C4_Witness ==
    /\ Called
    /\ rootPath = Str(<<"r">>)
    /\ relativePath = Null
    /\ outcome = TypeError

RECURSIVE SplitBothAcc(_, _, _)
\* the segments of s when both "/" and "\" separate
SplitBothAcc(s, acc, cur) ==
    IF s = <<>> THEN Append(acc, cur)
    ELSE IF IsSepOrBack(Head(s)) THEN SplitBothAcc(Tail(s), Append(acc, cur), <<>>)
    ELSE SplitBothAcc(Tail(s), acc, Append(cur, Head(s)))

\* p is well formed and its normalized form stays inside the root
NormalizesInside(p) ==
    ~includes(p, NUL) /\ ~isAbsolute(p) /\ ~BeginsWithParent(p)

\* no segment of the normalized form of p is "..", whichever of "/" and "\"
\* delimits it
NoParentSegment(p) ==
    LET segs == SplitBothAcc(normalize(p), <<>>, <<>>)
    IN  \A i \in 1..Len(segs) : segs[i] # DotDot

\* C5 as stated: every relative path that normalizes to a path inside the
\* root resolves to the normalized join of the root and the path.
C5_InsideResolves ==
    (Called /\ HasPath /\ NormalizesInside(PathArg.s))
    => outcome = Returned(normalize(join(RootArg.s, PathArg.s)))

\* C5 as amended: every relative path without NUL that is not absolute and
\* whose normalized form has no ".." segment, delimited by "/" or by "\",
\* resolves to the normalized join of the root and the path; the empty path
\* resolves to the normalized root.
C5_NoParentResolves ==
    (Called /\ HasPath /\ ~includes(PathArg.s, NUL) /\ ~isAbsolute(PathArg.s)
        /\ NoParentSegment(PathArg.s))
    => /\ outcome = Returned(normalize(join(RootArg.s, PathArg.s)))
       /\ PathArg.s = <<>> => outcome.path = normalize(RootArg.s)

\* "a/./a" was resolved against root "r" to "r/a/a"
C5_Witness ==
    /\ Called
    /\ rootPath = Str(<<"r">>)
    /\ relativePath = Str(<<"a", SLASH, DOT, SLASH, "a">>)
    /\ outcome = Returned(<<"r", SLASH, "a", SLASH, "a">>)

\* C6: the single-argument call resolvePath(x) has the outcome of
\* resolvePath(".", x), for every string x.
C6_SingleArgIsDotRoot ==
    (Called /\ relativePath = Undefined /\ rootPath.tag = "string")
    => outcome = resolvePath(Str(<<DOT>>), rootPath)

\* the single-argument call resolvePath("a/a") returned "a/a"
C6_Witness ==
    /\ Called
    /\ relativePath = Undefined
    /\ rootPath = Str(<<"a", SLASH, "a">>)
    /\ outcome = Returned(<<"a", SLASH, "a">>)

(***************************************************************************)
(* Properties of readableStreamFromReader, checked under Spec.             *)
(***************************************************************************)
\* the signals of a history: its entries other than the calls of close
Signals(t) == SelectSeq(t, LAMBDA ev : ev.op # "close")

\* the bytes the reader delivered in its k-th read
Delivered(k) == [i \in 1..reads[k].n |-> k]

Cancelled == readsAtCancel >= 0

\* the reader yielded two non-empty buffers and then end-of-data, to a
\* consumer that did not cancel
TwoBuffersThenEof ==
    /\ Len(reads) = 3
    /\ reads[1].kind = "data" /\ reads[1].n > 0
    /\ reads[2].kind = "data" /\ reads[2].n > 0
    /\ reads[3].kind = "eof"
    /\ ~Cancelled

\* C7: a closable reader whose close succeeds yields b1, b2 (non-empty) and
\* then end-of-data to a consumer that keeps demanding; with autoClose the
\* signals are enqueue b1, enqueue b2, end, each enqueue carrying exactly
\* the bytes read, and close is called once.
C7_TwoChunksThenEnd ==
    (isCloserReader /\ ~closeThrows /\ autoClose /\ TwoBuffersThenEof)
    => /\ Signals(trace)
            = <<EnqueueEv(Delivered(1)), EnqueueEv(Delivered(2)), EndEv>>
       /\ closeCalls = 1

\* the scenario has run with chunks larger than the first buffer read
C7_Witness ==
    /\ isCloserReader /\ ~closeThrows /\ autoClose /\ TwoBuffersThenEof
    /\ reads[1].n < chunkSize
    /\ stream.state = "closed"
    /\ closeCalls = 1

\* the reader's first read yielded a non-empty buffer and its second
\* failed, and the consumer did not cancel
SecondReadFails ==
    /\ Len(reads) = 2
    /\ reads[1].kind = "data" /\ reads[1].n > 0
    /\ reads[2].kind = "throw"
    /\ ~Cancelled

\* C8: when the second read of a closable reader fails, for either value
\* of autoClose the history is: enqueue of the first buffer, one error
\* signal carrying the read's failure, one call of close; no end signal.
C8_SecondReadFails ==
    (isCloserReader /\ SecondReadFails)
    => /\ trace = <<EnqueueEv(Delivered(1)), ErrorEv(reads[2].err), CloseEv>>
       /\ closeCalls = 1

\* the scenario has run with autoClose false
C8_Witness ==
    /\ isCloserReader /\ SecondReadFails /\ ~autoClose
    /\ stream.state = "errored"
    /\ closeCalls = 1

\* C9: when the consumer cancels before any pull has completed, a read
\* being in flight or not, with autoClose and a closable reader (whose close
\* succeeds) there is exactly one call of close and no enqueue, end or
\* error signal, however the pending read settles.
C9_CancelBeforeFirstPull ==
    (isCloserReader /\ ~closeThrows /\ autoClose /\ readsAtCancel = 0)
    => (closeCalls = 1 /\ Signals(trace) = <<>>)

\* C10: close is called at most once on the reader (whose close succeeds),
\* and exactly once when the stream has terminated, autoClose is true and
\* the reader is closable.
C10_CloseOnce ==
    ~closeThrows
    => /\ closeCalls <= 1
       /\ (isCloserReader /\ autoClose /\ stream.state # "readable")
            => closeCalls = 1

\* C11: at most one read of the reader is in flight in every reachable
\* state: reader.read is never called while an earlier call is unsettled.
C11_OneReadInFlight == inFlight <= 1

\* a read is in flight and the stream has noted that another pull is wanted
C11_Witness == inFlight = 1 /\ stream.pullAgain

\* the terminal signals of a history
Terminals(t) == SelectSeq(t, LAMBDA ev : ev.op = "end" \/ ev.op = "error")

\* C12: the stream receives at most one terminal signal: never both an end
\* signal and an error signal, nor two of a kind.
C12_OneTerminalSignal == Len(Terminals(trace)) <= 1

\* end-of-data was signalled while a chunk was still queued
C12_Witness ==
    /\ stream.closeRequested /\ stream.state = "readable"
    /\ Terminals(trace) = <<EndEv>>

\* C13: close is never called on the reader while a read of it is in
\* flight: a step that calls close leaves no read unsettled.
C13_NoCloseDuringRead ==
    [][closeCalls' > closeCalls => inFlight' = 0]_vars

\* no read of the reader has failed
NoReadFailed == \A i \in 1..Len(reads) : reads[i].kind # "throw"

\* every read of the reader that returned bytes returned at least one
NoEmptyRead == \A i \in 1..Len(reads) : reads[i].kind = "data" => reads[i].n > 0

\* C14: with autoClose false, close is called only when a read of the
\* reader has failed: while no read has failed (the reads returning bytes or
\* end-of-data, the consumer cancelling or not), close has not been called.
C14_NoAutoCloseNoClose ==
    (~autoClose /\ NoReadFailed /\ NoEmptyRead) => closeCalls = 0

\* the last read of the reader failed
LastReadFailed == reads # <<>> /\ reads[Len(reads)].kind = "throw"

\* C15: a failure of the reader's close during cleanup is suppressed: after
\* a read error the only error signal is the read's and the promise of pull
\* does not reject with the close failure, and on cancellation the promise
\* of cancel does not reject.
C15_CloseFailureSuppressed ==
    /\ cancelResult # "rejected"
    /\ LastReadFailed => /\ \A i \in 1..Len(pullResults) :
                               pullResults[i] # "CloseError"
                         /\ \A i \in 1..Len(trace) :
                               trace[i].op = "error" => trace[i].err = "ReadError"

\* the last read of the reader returned zero bytes, on a stream that the
\* consumer has not cancelled
LastReadEmpty ==
    /\ reads # <<>>
    /\ reads[Len(reads)].kind = "data" /\ reads[Len(reads)].n = 0
    /\ ~Cancelled

\* C16: a read that returns zero bytes is not taken for end-of-data: the
\* bridge enqueues an empty chunk, signals neither end nor error, does not
\* close the reader, and the stream stays readable for the next demand.
C16_ZeroBytesEnqueued ==
    LastReadEmpty
    => /\ trace # <<>> /\ trace[Len(trace)] = EnqueueEv(<<>>)
       /\ Terminals(trace) = <<>>
       /\ closeCalls = 0
       /\ stream.state = "readable"

\* the stream has ended: closed (by end-of-data or by cancellation) or
\* errored, or end-of-data was signalled and only queued chunks remain
Terminated == stream.state # "readable" \/ stream.closeRequested

\* the calls of reader.read made so far
ReadsIssued == Len(reads) + inFlight

\* C17: once the stream is closed or errored, no step issues a read of the
\* reader or delivers an enqueue, end or error signal; in particular a
\* failed read is not retried.
C17_NothingAfterTermination ==
    [][Terminated => /\ ReadsIssued' = ReadsIssued
                     /\ Signals(trace') = Signals(trace)]_vars

\* a read failed, the stream is errored, the promise of pull has been dealt
\* with, and the reader could still be read
C17_Witness ==
    /\ stream.state = "errored" /\ LastReadFailed
    /\ pullResults = <<>> /\ inFlight = 0
    /\ Len(reads) < MaxReads

\* the signal of the last read reached the stream: the consumer had not
\* cancelled when the read settled
LastReadSeen == ~Cancelled \/ readsAtCancel >= Len(reads)

\* C18: for a reader without a close method, close is never called and the
\* missing method causes no error: the promises of pull and cancel do not
\* reject, end-of-data is signalled as the end of the stream and a failed
\* read as the stream's error, carrying the read's failure.
C18_NoCloserNoClose ==
    ~isCloserReader
    => /\ closeCalls = 0
       /\ cancelResult # "rejected"
       /\ \A i \in 1..Len(pullResults) : pullResults[i] = ""
       /\ (reads # <<>> /\ LastReadSeen /\ reads[Len(reads)].kind = "eof")
            => trace[Len(trace)] = EndEv
       /\ (LastReadFailed /\ LastReadSeen)
            => trace[Len(trace)] = ErrorEv(reads[Len(reads)].err)

\* a stream over a reader without close, under autoClose, was cancelled
\* after a read, and cancel completed
C18_Witness ==
    /\ ~isCloserReader /\ autoClose
    /\ readsAtCancel >= 1
    /\ cancelResult = "fulfilled"
    /\ closeCalls = 0

\* C19: when the consumer keeps asking and every read settles, the reader
\* ending or failing within its bounded number of reads, the stream
\* eventually is closed or errored, and by then a closable reader under
\* autoClose has been closed.
C19_EventuallyTerminated ==
    <>(/\ stream.state # "readable"
       /\ (isCloserReader /\ autoClose) => closeCalls >= 1)

\* the reader ended, the consumer drained the queue, and the stream closed
\* with the reader closed once
C19_Witness ==
    /\ isCloserReader /\ autoClose /\ ~Cancelled
    /\ Len(reads) >= 2 /\ reads[Len(reads)].kind = "eof"
    /\ stream.state = "closed"
    /\ closeCalls = 1

(***************************************************************************)
(* Properties of stripEol, checked under EolSpec.                          *)
(***************************************************************************)
EndsWith(v, suffix) ==
    Len(v) >= Len(suffix)
    /\ SubSeq(v, Len(v) - Len(suffix) + 1, Len(v)) = suffix

\* C20 as stated: for a buffer that ends in CR LF, stripEol removes exactly
\* the last two bytes, and applied to its own result changes nothing.
C20_StripsCrLfOnce ==
    (EndsWith(value, <<CR, LF>>) /\ Len(stripped) = 2)
    => /\ stripped[1] = SubSeq(value, 1, Len(value) - 2)
       /\ stripped[2] = stripped[1]

\* C20 as amended: for a buffer that ends in CR LF, stripEol removes exactly
\* the last two bytes; applied to its own result it changes nothing when
\* that result does not end in LF, and strips another line ending when it
\* does.
C20_StripsOneLineEnding ==
    (EndsWith(value, <<CR, LF>>) /\ Len(stripped) = 2)
    => /\ stripped[1] = SubSeq(value, 1, Len(value) - 2)
       /\ ~EndsWith(stripped[1], <<LF>>) => stripped[2] = stripped[1]
       /\ EndsWith(stripped[1], <<LF>>) => Len(stripped[2]) < Len(stripped[1])

\* stripEol was applied twice to "a" CR LF and gave "a" both times
C20_Witness ==
    /\ value = <<97, CR, LF>>
    /\ stripped = <<(<<97>>), (<<97>>)>>

=============================================================================
